---------------------------- MODULE Spec2Model ----------------------------
(***************************************************************************)
(* Model of homework/cmd/main.go: a dd-like utility that skips an offset,  *)
(* reads a byte source block by block up to a limit, applies an ordered    *)
(* list of conversions and writes the result to a byte sink.               *)
(*                                                                         *)
(* Bytes are integers 0..255, byte slices are sequences of them.           *)
(*   Spec      one run of main(): ParseFlags, getReader, getWriter,        *)
(*             Process (skipBytes, processData loop, finalize).            *)
(*   SpecConv  the conversion functions called on their own.               *)
(***************************************************************************)
EXTENDS Integers, Sequences, FiniteSets

VARIABLES
    pc,            \* position of main(): which call is next
    opts,          \* *Options built by ParseFlags
    src,           \* content of the byte source (io.Reader)
    srcPos,        \* number of source bytes consumed so far
    sink,          \* bytes the sink (io.Writer) holds
    nWrites,       \* number of dst.Write calls that returned nil
    bufLen,        \* len(ctx.buffer)
    totalRead,     \* ctx.totalRead
    trimBuffer,    \* ctx.trimBuffer
    hasTrimSpaces, \* ctx.hasTrimSpaces
    err,           \* error main() reports: <<>> is nil, else the chain of contexts
    files,         \* which of "src", "dst" main() has opened
    phase,         \* history: the last phase of the run that started
    skipped,       \* history: bytes io.CopyN discarded
    handed,        \* history: pre-conversion bytes passed to successful writes
    lastReq,       \* history: the size the last src.Read call asked for
    lastErr,       \* history: what the last src.Read call returned as error
    emptyReads,    \* history: parity of the run of reads, up to now, that returned no byte
    cPc,           \* SpecConv: position of the caller of the conversions
    cData,         \* SpecConv: the input slice
    cConv,         \* SpecConv: the conversion names
    cTrace,        \* SpecConv: results of the successive Convers calls
    cAll           \* SpecConv: result of applyConversions(cData, cConv)

runVars  == <<pc, opts, src, srcPos, sink, nWrites, bufLen, totalRead,
              trimBuffer, hasTrimSpaces, err, files, phase, skipped, handed,
              lastReq, lastErr, emptyReads>>
convVars == <<cPc, cData, cConv, cTrace, cAll>>
vars     == <<runVars, convVars>>

(***************************************************************************)
(* Bounds of the model.                                                    *)
(***************************************************************************)
MaxLen    == 3   \* longest source modelled
MaxLimit  == 2   \* largest -limit modelled
MaxBlock  == 2   \* largest -block-size modelled
MaxOffset == 1   \* largest ordinary -offset modelled
MaxConv   == 2   \* longest conversion list modelled
MaxData   == 3   \* longest slice handed to a conversion in SpecConv
IntBits   == 4   \* width standing for the 64 bits of uint64/int64

defaultBlockSize == 4096
minSize          == 0

Min(a, b) == IF a < b THEN a ELSE b

RECURSIVE Pow2(_)
Pow2(n) == IF n = 0 THEN 1 ELSE 2 * Pow2(n - 1)

\* The unsigned values with the top bit set: the smallest and the largest.
HalfUint == Pow2(IntBits - 1)
TopUint  == Pow2(IntBits) - 1

\* int64(u) for an unsigned u: two's complement reinterpretation.
ToInt64(u) == IF u >= HalfUint THEN u - Pow2(IntBits) ELSE u

RECURSIVE SeqsUpTo(_, _)
SeqsUpTo(S, n) ==
    IF n = 0 THEN {<<>>}
    ELSE LET shorter == SeqsUpTo(S, n - 1)
         IN  shorter \cup {Append(s, x) : s \in {t \in shorter : Len(t) = n - 1}, x \in S}

Prefix(s, n) == SubSeq(s, 1, n)
Drop(s, n)   == SubSeq(s, n + 1, Len(s))

(***************************************************************************)
(* Text of the model: bytes, UTF-8 runes, case mapping, white space.       *)
(***************************************************************************)
\* Bytes a source of a run holds: ' ' and 'a'.
SrcBytes  == {32, 97}
\* Bytes a slice of SpecConv holds: ' ', '\n', 'A', 'a', and 0xC3 0xA9
\* (together the UTF-8 of U+00E9; each alone, or reversed, invalid UTF-8).
DataBytes == {32, 10, 65, 97, 195, 169}

ConvNames == {"upper_case", "lower_case", "trim_spaces", "bogus"}
ConvLists == SeqsUpTo(ConvNames, MaxConv)

IsASCII(s) == \A i \in 1..Len(s) : s[i] < 128
IsCont(b)  == b \in 128..191

\* utf8.DecodeRune at the head of a non-empty s: the rune and its width.
\* An invalid or truncated encoding is RuneError (U+FFFD, 65533) of width 1.
\* Encodings of up to three bytes are modelled.
DecodeRune(s) ==
    LET b == s[1] IN
    IF b < 128 THEN [r |-> b, w |-> 1]
    ELSE IF b \in 194..223 /\ Len(s) >= 2 /\ IsCont(s[2])
         THEN [r |-> (b - 192) * 64 + (s[2] - 128), w |-> 2]
    ELSE IF b \in 224..239 /\ Len(s) >= 3 /\ IsCont(s[2]) /\ IsCont(s[3])
            /\ (b = 224 => s[2] >= 160) /\ (b = 237 => s[2] <= 159)
         THEN [r |-> (b - 224) * 4096 + (s[2] - 128) * 64 + (s[3] - 128), w |-> 3]
    ELSE [r |-> 65533, w |-> 1]

\* utf8.AppendRune for a rune below U+10000.
EncodeRune(r) ==
    IF r < 128 THEN <<r>>
    ELSE IF r < 2048 THEN <<192 + (r \div 64), 128 + (r % 64)>>
    ELSE <<224 + (r \div 4096), 128 + ((r \div 64) % 64), 128 + (r % 64)>>

\* unicode.ToUpper / unicode.ToLower, exact on U+0000..U+00FF and on the
\* images of those runes.
ToUpperRune(r) ==
    IF r \in 97..122 THEN r - 32
    ELSE IF r \in (224..254) \ {247} THEN r - 32
    ELSE IF r = 181 \/ r = 956 THEN 924
    ELSE IF r = 255 THEN 376
    ELSE r

ToLowerRune(r) ==
    IF r \in 65..90 THEN r + 32
    ELSE IF r \in (192..222) \ {215} THEN r + 32
    ELSE IF r = 924 THEN 956
    ELSE IF r = 376 THEN 255
    ELSE r

MapRune(kind, r) == IF kind = "upper" THEN ToUpperRune(r) ELSE ToLowerRune(r)

\* strings.Map(unicode.ToUpper | unicode.ToLower, s): every rune is decoded,
\* mapped and encoded again; an invalid byte comes out as U+FFFD (EF BF BD).
RECURSIVE MapString(_, _)
MapString(kind, s) ==
    IF s = <<>> THEN <<>>
    ELSE LET d == DecodeRune(s)
         IN  EncodeRune(MapRune(kind, d.r)) \o MapString(kind, Drop(s, d.w))

\* strings.ToUpper / strings.ToLower: a byte-wise pass over an all-ASCII
\* string, strings.Map otherwise.
RECURSIVE MapBytes(_, _)
MapBytes(kind, s) ==
    IF s = <<>> THEN <<>>
    ELSE LET c == s[1]
             m == IF kind = "upper" /\ c \in 97..122 THEN c - 32
                  ELSE IF kind = "lower" /\ c \in 65..90 THEN c + 32
                  ELSE c
         IN  <<m>> \o MapBytes(kind, Tail(s))

ToUpper(s) == IF IsASCII(s) THEN MapBytes("upper", s) ELSE MapString("upper", s)

ToLower(s) == IF IsASCII(s) THEN MapBytes("lower", s) ELSE MapString("lower", s)

\* The ASCII members of unicode.IsSpace: \t \n \v \f \r and ' '.  The other
\* members (U+0085, U+00A0, ...) cannot be formed from the modelled bytes.
IsSpace(b) == b \in {9, 10, 11, 12, 13, 32}

RECURSIVE TrimLeft(_)
TrimLeft(s) == IF s # <<>> /\ IsSpace(s[1]) THEN TrimLeft(Tail(s)) ELSE s

RECURSIVE TrimRight(_)
TrimRight(s) ==
    IF s # <<>> /\ IsSpace(s[Len(s)]) THEN TrimRight(Prefix(s, Len(s) - 1)) ELSE s

\* strings.TrimSpace
TrimSpace(s) == TrimRight(TrimLeft(s))

(***************************************************************************)
(* The conversions (main.go, "instrument funcs").                          *)
(***************************************************************************)
upperCaseToggle(data) == IF IsASCII(data) /\ \E i \in 1..Len(data) : data[i] \in 65..90
                         THEN ToLower(data) ELSE ToUpper(data)

upperCase(data) == ToUpper(data)

lowerCaseNoop(data) == data

lowerCase(data) == ToLower(data)

trimSpacesNoGuard(data) == TrimSpace(data)

trimSpaces(data) == IF Len(data) <= 2 THEN data ELSE TrimSpace(data)

Convers(data, conv) ==
    CASE conv = "upper_case"  -> upperCase(data)
      [] conv = "lower_case"  -> lowerCase(data)
      [] conv = "trim_spaces" -> trimSpaces(data)
      [] OTHER                -> data

\* The loop of applyConversions from position i on, result being the
\* value accumulated so far.
RECURSIVE ApplyFrom(_, _, _)
ApplyFrom(result, conversions, i) ==
    IF i > Len(conversions) THEN result
    ELSE ApplyFrom(Convers(result, conversions[i]), conversions, i + 1)

RECURSIVE ApplyBackFrom(_, _, _)
ApplyBackFrom(result, conversions, i) ==
    IF i < 1 THEN result
    ELSE ApplyBackFrom(Convers(result, conversions[i]), conversions, i - 1)

applyConversionsReversed(data, conversions) ==
    ApplyBackFrom(data, conversions, Len(conversions))

applyConversions(data, conversions) ==
    IF Len(conversions) = 0 THEN data ELSE ApplyFrom(data, conversions, 1)

(***************************************************************************)
(* Options and their validation (ParseFlags, validateOptions).             *)
(***************************************************************************)
\* -offset values: the ordinary ones and the two ends of the range whose
\* top bit is set.
Offsets == (0..MaxOffset) \cup {HalfUint, TopUint}

Options == [Offset : Offsets, Limit : 0..MaxLimit, BlockSize : 0..MaxBlock,
            Conv : ConvLists]

Sources == SeqsUpTo(SrcBytes, MaxLen)

\* The loop and the final test of validateOptions: "nil" or the error.
RECURSIVE ValidateFrom(_, _, _, _)
ValidateFrom(conv, i, hasUpper, hasLower) ==
    IF i > Len(conv)
    THEN IF hasLower /\ hasUpper
         THEN "can't use both 'upper_case' and 'lower_case' conversion types"
         ELSE "nil"
    ELSE CASE conv[i] = "upper_case"  -> ValidateFrom(conv, i + 1, TRUE, hasLower)
           [] conv[i] = "lower_case"  -> ValidateFrom(conv, i + 1, hasUpper, TRUE)
           [] conv[i] = "trim_spaces" -> ValidateFrom(conv, i + 1, hasUpper, hasLower)
           [] OTHER                   -> "unknown conversion type"

validateOptionsNoConflict(options) ==
    IF \A i \in 1..Len(options.Conv) :
           options.Conv[i] \in {"upper_case", "lower_case", "trim_spaces"}
    THEN "nil" ELSE "unknown conversion type"

validateOptions(options) == ValidateFrom(options.Conv, 1, FALSE, FALSE)

ConvIdle ==
    /\ cPc = "idle" /\ cData = <<>> /\ cConv = <<>> /\ cTrace = <<>> /\ cAll = <<>>

Init ==
    /\ pc = "ParseFlags"
    /\ opts \in Options
    /\ src = <<>> /\ srcPos = 0 /\ files = {}
    /\ sink = <<>> /\ nWrites = 0
    /\ bufLen = 0 /\ totalRead = 0 /\ trimBuffer = <<>> /\ hasTrimSpaces = FALSE
    /\ err = <<>> /\ phase = "setup"
    /\ skipped = 0 /\ handed = 0 /\ lastReq = 0 /\ lastErr = "none" /\ emptyReads = 0
    /\ ConvIdle

\* main() reports the error and calls os.Exit(1).
Fail(chain) == pc' = "exit" /\ err' = chain

ParseFlags ==
    /\ pc = "ParseFlags"
    /\ LET e == validateOptions(opts)
       IN  IF e # "nil"
           THEN Fail(<<"can't parse flags", "invalid options", e>>)
           ELSE pc' = "getReader" /\ err' = err
    /\ UNCHANGED <<opts, src, srcPos, files, sink, nWrites, bufLen, totalRead,
                   trimBuffer, hasTrimSpaces, phase, skipped, handed, lastReq,
                   lastErr, emptyReads>>
    /\ UNCHANGED convVars

\* getReader: os.Open fails, or the source is open with some content.
getReader ==
    /\ pc = "getReader"
    /\ \/ /\ Fail(<<"can't open input file">>)
          /\ UNCHANGED <<src, files>>
       \/ /\ src' \in Sources
          /\ files' = files \cup {"src"}
          /\ pc' = "getWriter" /\ err' = err
    /\ UNCHANGED <<opts, srcPos, sink, nWrites, bufLen, totalRead,
                   trimBuffer, hasTrimSpaces, phase, skipped, handed, lastReq,
                   lastErr, emptyReads>>
    /\ UNCHANGED convVars

\* getWriter: the output exists or cannot be created, or the sink is open.
getWriter ==
    /\ pc = "getWriter"
    /\ \/ /\ Fail(<<"can't create output file">>)
          /\ UNCHANGED files
       \/ /\ files' = files \cup {"dst"}
          /\ pc' = "skipBytes" /\ err' = err
    /\ UNCHANGED <<opts, src, srcPos, sink, nWrites, bufLen, totalRead,
                   trimBuffer, hasTrimSpaces, phase, skipped, handed, lastReq,
                   lastErr, emptyReads>>
    /\ UNCHANGED convVars

(***************************************************************************)
(* Process: skipBytes, then processData.                                   *)
(***************************************************************************)
\* The count io.CopyN(io.Discard, src, n) is asked to copy.
copyCount(offset) == ToInt64(offset)

\* skipBytes.  io.CopyN reads through io.LimitReader(src, n): with n <= 0
\* it reads nothing and returns (0, nil); with n > 0 it returns nil after n
\* bytes, io.EOF when the source ends before that, or the error of a read.
skipBytes ==
    /\ pc = "skipBytes"
    /\ phase' = "skip"
    /\ LET n     == copyCount(opts.Offset)
           avail == Len(src) - srcPos
       IN  IF opts.Offset > 0 /\ n > 0
           THEN \/ /\ avail >= n
                   /\ srcPos' = srcPos + n /\ skipped' = n
                   /\ pc' = "processData" /\ err' = err
                \/ /\ avail < n
                   /\ srcPos' = srcPos + avail /\ skipped' = avail
                   /\ Fail(<<"can't process file", "can't skip offset", "EOF">>)
                \/ /\ \E k \in 0..(Min(n, avail)) :
                          srcPos' = srcPos + k /\ skipped' = k
                   /\ Fail(<<"can't process file", "can't skip offset", "read failed">>)
           ELSE /\ pc' = "processData" /\ err' = err
                /\ UNCHANGED <<srcPos, skipped>>
    /\ UNCHANGED <<opts, src, files, sink, nWrites, bufLen, totalRead,
                   trimBuffer, hasTrimSpaces, handed, lastReq,
                   lastErr, emptyReads>>
    /\ UNCHANGED convVars

\* newProcessingContext, called first thing by processData.
newProcessingContext ==
    /\ pc = "processData"
    /\ bufLen' = IF opts.BlockSize = 0 THEN defaultBlockSize ELSE opts.BlockSize
    /\ totalRead' = 0
    /\ trimBuffer' = <<>>
    /\ hasTrimSpaces' = (\E i \in 1..Len(opts.Conv) : opts.Conv[i] = "trim_spaces")
    /\ pc' = "loop" /\ phase' = "read"
    /\ UNCHANGED <<opts, src, srcPos, files, sink, nWrites, err, skipped,
                   handed, lastReq,
                   lastErr, emptyReads>>
    /\ UNCHANGED convVars

calculateReadSizeNoLimit(len, limit, total) == len

\* calculateReadSize on len(ctx.buffer), opts.Limit and ctx.totalRead; the
\* subtraction is unsigned.
calculateReadSize(len, limit, total) ==
    IF limit > 0
    THEN LET remaining == (limit - total) % Pow2(IntBits)
         IN  IF remaining < len THEN remaining ELSE len
    ELSE len

\* The test that routes a block to ctx.trimBuffer (readAndProcess) and that
\* lets finalizeTrimProcessing flush it.
useTrimBufferNever(blockSize, hasTrim) == FALSE

useTrimBufferAnyBlock(blockSize, hasTrim) == hasTrim

useTrimBuffer(blockSize, hasTrim) == blockSize = 1 /\ hasTrim

\* processData: the read size is minSize, the loop breaks.
limitReached ==
    /\ pc = "loop"
    /\ calculateReadSize(bufLen, opts.Limit, totalRead) = minSize
    /\ pc' = "finalize"
    /\ UNCHANGED <<opts, src, srcPos, files, sink, nWrites, bufLen, totalRead,
                   trimBuffer, hasTrimSpaces, err, phase, skipped, handed, lastReq,
                   lastErr, emptyReads>>
    /\ UNCHANGED convVars

AfterReadRetry(e) ==
    CASE e = "EOF" -> pc' = "finalize" /\ err' = err
      [] OTHER     -> pc' = "loop" /\ err' = err

AfterReadEofIsError(e) ==
    CASE e = "nil" -> pc' = "loop" /\ err' = err
      [] OTHER     -> Fail(<<"can't process file", "read data error", "read failed">>)

AfterReadEofContinues(e) ==
    CASE e = "error" -> Fail(<<"can't process file", "read data error", "read failed">>)
      [] OTHER       -> pc' = "loop" /\ err' = err

\* What processData does with the error readAndProcess returned.
AfterRead(e) ==
    CASE e = "nil" -> pc' = "loop" /\ err' = err
      [] e = "EOF" -> pc' = "finalize" /\ err' = err
      [] OTHER     -> Fail(<<"can't process file", "read data error", "read failed">>)

\* One turn of the loop of processData with a read size other than minSize:
\* readAndProcess.  The source returns n bytes and e: nil, io.EOF (only
\* together with the last bytes or after them) or another error.
readAndProcess ==
    /\ pc = "loop"
    /\ LET toRead == calculateReadSize(bufLen, opts.Limit, totalRead)
           avail  == Len(src) - srcPos
       IN  /\ toRead # minSize
           /\ \E n \in 0..Min(toRead, avail), e \in {"nil", "EOF", "error"} :
                /\ e = "EOF" => n = avail
                /\ lastReq' = toRead
                /\ lastErr' = e
                /\ srcPos' = srcPos + n
                /\ LET data == SubSeq(src, srcPos + 1, srcPos + n)
                   IN  IF n > 0
                       THEN IF useTrimBuffer(opts.BlockSize, hasTrimSpaces)
                            THEN /\ trimBuffer' = trimBuffer \o data
                                 /\ totalRead' = totalRead + n
                                 /\ AfterRead(e)
                                 /\ UNCHANGED <<sink, nWrites, handed>>
                            ELSE LET processedData == applyConversions(data, opts.Conv)
                                 IN  \/ /\ sink' = sink \o processedData
                                        /\ nWrites' = nWrites + 1
                                        /\ handed' = handed + n
                                        /\ totalRead' = totalRead + n
                                        /\ AfterRead(e)
                                        /\ UNCHANGED trimBuffer
                                     \/ /\ \E k \in 0..Len(processedData) :
                                              /\ k < Len(processedData) \/ k = 0
                                              /\ sink' = sink \o Prefix(processedData, k)
                                        /\ Fail(<<"can't process file", "read data error",
                                                  "write processed data error">>)
                                        /\ UNCHANGED <<nWrites, handed, totalRead,
                                                       trimBuffer>>
                       ELSE /\ AfterRead(e)
                            /\ UNCHANGED <<sink, nWrites, handed, totalRead, trimBuffer>>
                /\ emptyReads' = IF n = 0 /\ pc' = "loop" THEN 1 - emptyReads ELSE 0
    /\ UNCHANGED <<opts, src, files, bufLen, hasTrimSpaces, phase, skipped>>
    /\ UNCHANGED convVars

\* processData returns what finalizeTrimProcessing returned.
AfterFinalizeLoops == pc' = "loop"

AfterFinalize == pc' = "exit"

finalizeTrimProcessing ==
    /\ pc = "finalize"
    /\ phase' = "finalize"
    /\ IF useTrimBuffer(opts.BlockSize, hasTrimSpaces) /\ Len(trimBuffer) > 0
       THEN LET processedData == applyConversions(trimBuffer, opts.Conv)
            IN  \/ /\ sink' = sink \o processedData
                   /\ nWrites' = nWrites + 1
                   /\ handed' = handed + Len(trimBuffer)
                   /\ AfterFinalize /\ err' = err
                \/ /\ \E k \in 0..Len(processedData) :
                         /\ k < Len(processedData) \/ k = 0
                         /\ sink' = sink \o Prefix(processedData, k)
                   /\ Fail(<<"can't process file", "can't trim spaces",
                             "write final processed data error">>)
                   /\ UNCHANGED <<nWrites, handed>>
       ELSE /\ AfterFinalize /\ err' = err
            /\ UNCHANGED <<sink, nWrites, handed>>
    /\ UNCHANGED <<opts, src, srcPos, files, bufLen, totalRead, trimBuffer,
                   hasTrimSpaces, skipped, lastReq,
                   lastErr, emptyReads>>
    /\ UNCHANGED convVars

Next ==
    \/ ParseFlags
    \/ getReader
    \/ getWriter
    \/ skipBytes
    \/ newProcessingContext
    \/ limitReached
    \/ readAndProcess
    \/ finalizeTrimProcessing

Spec == Init /\ [][Next]_vars

\* The program is one thread that always goes on to its next step.
SpecLive == Spec /\ WF_vars(Next)

(***************************************************************************)
(* SpecConv: a caller of the DataProcessor interface applies the names of  *)
(* cConv to cData one Convers call after the other, then calls             *)
(* applyConversions on the same input.                                     *)
(***************************************************************************)
RunIdle ==
    /\ pc = "off" /\ opts = [Offset |-> 0, Limit |-> 0, BlockSize |-> 0, Conv |-> <<>>]
    /\ src = <<>> /\ srcPos = 0 /\ files = {}
    /\ sink = <<>> /\ nWrites = 0
    /\ bufLen = 0 /\ totalRead = 0 /\ trimBuffer = <<>> /\ hasTrimSpaces = FALSE
    /\ err = <<>> /\ phase = "off"
    /\ skipped = 0 /\ handed = 0 /\ lastReq = 0 /\ lastErr = "none" /\ emptyReads = 0

DataSeqs == SeqsUpTo(DataBytes, MaxData)

InitConv ==
    /\ RunIdle
    /\ cPc = "call"
    /\ cData \in DataSeqs
    /\ cConv \in ConvLists
    /\ cTrace = <<>>
    /\ cAll = <<>>

\* The input of the i-th Convers call of the trace.
StepIn(i) == IF i = 1 THEN cData ELSE cTrace[i - 1]

ConversCall ==
    /\ cPc = "call"
    /\ Len(cTrace) < Len(cConv)
    /\ cTrace' = Append(cTrace, Convers(StepIn(Len(cTrace) + 1), cConv[Len(cTrace) + 1]))
    /\ UNCHANGED <<cPc, cData, cConv, cAll>>
    /\ UNCHANGED runVars

applyConversionsCall ==
    /\ cPc = "call"
    /\ Len(cTrace) = Len(cConv)
    /\ cAll' = applyConversions(cData, cConv)
    /\ cPc' = "done"
    /\ UNCHANGED <<cData, cConv, cTrace>>
    /\ UNCHANGED runVars

NextConv == ConversCall \/ applyConversionsCall

SpecConv == InitConv /\ [][NextConv]_vars

(***************************************************************************)
(* Properties of a run (Spec).                                             *)
(***************************************************************************)
HasName(conv, name) == \E i \in 1..Len(conv) : conv[i] = name

\* Process returned nil: the run went through its finalize phase.
Success == pc = "exit" /\ err = <<>> /\ phase = "finalize"

\* The configuration the buffering policy is stated for.
Buffering == opts.BlockSize = 1 /\ HasName(opts.Conv, "trim_spaces")

\* The number of source bytes that lie after the configured offset.
AvailAfterOffset == IF Len(src) > opts.Offset THEN Len(src) - opts.Offset ELSE 0

\* The source bytes of the range [offset, offset+limit), to the end of the
\* source when limit = 0.
SelectedRange ==
    LET last == IF opts.Limit = 0 THEN Len(src)
                ELSE Min(Len(src), opts.Offset + opts.Limit)
    IN  IF opts.Offset + 1 > last THEN <<>> ELSE SubSeq(src, opts.Offset + 1, last)

\* The bytes the processing reads returned.
BytesRead == SubSeq(src, skipped + 1, srcPos)

\* out is s without its leading and trailing white space, the rest untouched.
IsStripOf(out, s) ==
    \E a \in 0..Len(s), b \in 0..Len(s) :
        /\ a + b <= Len(s)
        /\ out = SubSeq(s, a + 1, Len(s) - b)
        /\ \A i \in 1..a : IsSpace(s[i])
        /\ \A i \in (Len(s) - b + 1)..Len(s) : IsSpace(s[i])
        /\ out # <<>> => ~IsSpace(out[1]) /\ ~IsSpace(out[Len(out)])

\* C1: a run with limit > 0 that returns without error has handed to the
\* sink, counted before conversion, min(limit, bytes of the source after
\* the offset) bytes.
C1_HandedIsMinLimitAvail ==
    (Success /\ opts.Limit > 0) => handed = Min(opts.Limit, AvailAfterOffset)

\* C2 as stated: with blockSize = 1 and trim_spaces nothing is written
\* while the loop runs, and a successful run ends with exactly one write,
\* of applyConversions(all bytes read), with the white space around the
\* whole stream removed.
C2_ExactlyOneWrite ==
    Buffering =>
        /\ pc = "loop" => (nWrites = 0 /\ sink = <<>>)
        /\ Success =>
             /\ nWrites = 1
             /\ sink = applyConversions(BytesRead, opts.Conv)
             /\ opts.Conv = <<"trim_spaces">> => IsStripOf(sink, BytesRead)

\* C2 amended: with blockSize = 1 and trim_spaces nothing is written while
\* the loop runs; a successful run ends with exactly one write when at
\* least one byte was read and with no write when none was; the sink then
\* holds applyConversions(all bytes read), which for [trim_spaces] and more
\* than 2 bytes read is the stream without its surrounding white space.
C2_BufferedFlushOnce ==
    Buffering =>
        /\ pc = "loop" => (nWrites = 0 /\ sink = <<>>)
        /\ Success =>
             /\ nWrites = (IF BytesRead # <<>> THEN 1 ELSE 0)
             /\ sink = applyConversions(BytesRead, opts.Conv)
             /\ (opts.Conv = <<"trim_spaces">> /\ Len(BytesRead) > 2)
                    => IsStripOf(sink, BytesRead)
             /\ (opts.Conv = <<"trim_spaces">> /\ BytesRead = <<32, 97, 32>>)
                    => sink = <<97>>

C2_Witness ==
    /\ Success /\ Buffering /\ opts.Conv = <<"trim_spaces">>
    /\ src = <<32, 97, 32>> /\ BytesRead = src
    /\ nWrites = 1 /\ sink = <<97>>

\* C3: without trim_spaces, the sink of a successful run holds
\* applyConversions of the source bytes [offset, offset+limit).
C3_OutputIsConvertedRange ==
    (Success /\ ~HasName(opts.Conv, "trim_spaces"))
        => sink = applyConversions(SelectedRange, opts.Conv)

\* C4: once the skip phase is over exactly offset bytes are discarded (none
\* for offset = 0), and a source shorter than the offset makes the run end
\* in the skip phase with an error, without a processing read or a write.
C4_SkipExactOrError ==
    /\ phase \in {"read", "finalize"} => skipped = opts.Offset
    /\ (phase \in {"skip", "read", "finalize"} /\ Len(src) < opts.Offset)
          => /\ pc = "exit" /\ err # <<>> /\ phase = "skip"
             /\ lastReq = 0 /\ nWrites = 0 /\ sink = <<>>

EffectiveBlock == IF opts.BlockSize = 0 THEN 4096 ELSE opts.BlockSize

ExpectedReadSize ==
    IF opts.Limit > 0 THEN Min(EffectiveBlock, opts.Limit - totalRead)
    ELSE EffectiveBlock

\* C5: every processing read asks for min(blockSize, limit - totalRead)
\* bytes, blockSize when limit = 0, a blockSize of 0 counting as 4096; the
\* loop ends without a read as soon as that size is 0; with limit = 0 it
\* ends only at the end of the source, so a successful run has processed
\* every byte that followed the skipped ones.
C5_ReadSize ==
    /\ [][pc = "loop" =>
            IF ExpectedReadSize = 0
            THEN pc' = "finalize" /\ srcPos' = srcPos /\ lastReq' = lastReq
            ELSE /\ lastReq' = ExpectedReadSize
                 /\ (opts.Limit = 0 /\ pc' = "finalize") => srcPos' = Len(src)]_vars
    /\ []((Success /\ opts.Limit = 0)
            => (srcPos = Len(src) /\ handed = Len(src) - skipped))

C5_Witness ==
    /\ pc = "finalize" /\ opts.BlockSize = 0 /\ opts.Limit = 2
    /\ totalRead = 2 /\ lastReq = 1 /\ Len(src) = 3

KnownNames == {"upper_case", "lower_case", "trim_spaces"}

BadConv(conv) ==
    \/ \E i \in 1..Len(conv) : conv[i] \notin KnownNames
    \/ HasName(conv, "upper_case") /\ HasName(conv, "lower_case")

ConfigError == err # <<>> /\ err[1] = "can't parse flags"

\* C6: validateOptions fails exactly for a list with an unknown name or
\* with both upper_case and lower_case; the program then exits before it
\* opens the source: nothing is read, nothing written.
C6_ValidateOptions ==
    pc # "ParseFlags" =>
        /\ ConfigError <=> BadConv(opts.Conv)
        /\ ConfigError =>
             /\ pc = "exit" /\ files = {}
             /\ srcPos = 0 /\ skipped = 0 /\ lastReq = 0
             /\ sink = <<>> /\ nWrites = 0

C6_Witness ==
    /\ pc = "exit" /\ ConfigError /\ files = {}
    /\ opts.Conv = <<"lower_case", "upper_case">>

(***************************************************************************)
(* Properties of the conversions (SpecConv).                               *)
(***************************************************************************)
\* C7: applyConversions folds the names left to right, each result being
\* the input of the next Convers; the empty list returns the data, and a
\* name that is none of the three kinds leaves the data as it is.
C7_FoldLeft ==
    /\ cPc = "done" =>
         /\ cConv = <<>> => cAll = cData
         /\ Len(cConv) = 1 => cAll = Convers(cData, cConv[1])
         /\ Len(cConv) = 2 => cAll = Convers(Convers(cData, cConv[1]), cConv[2])
         /\ Len(cConv) > 0 => cAll = cTrace[Len(cConv)]
    /\ \A i \in 1..Len(cTrace) : cConv[i] \notin KnownNames => cTrace[i] = StepIn(i)

C7_Witness ==
    /\ cPc = "done" /\ cConv = <<"upper_case", "lower_case">>
    /\ cData = <<65, 97>> /\ cAll = <<97, 97>>

\* C8: trim_spaces returns an input of at most 2 bytes unchanged, and a
\* longer one without its leading and trailing white space, the interior
\* untouched.
C8_TrimSpaces ==
    \A i \in 1..Len(cTrace) :
        cConv[i] = "trim_spaces" =>
            /\ Len(StepIn(i)) <= 2 => cTrace[i] = StepIn(i)
            /\ Len(StepIn(i)) >= 3 => IsStripOf(cTrace[i], StepIn(i))
            /\ StepIn(i) = <<32, 32, 97>> => cTrace[i] = <<97>>

C8_Witness ==
    /\ cData = <<32, 32, 97>> /\ cConv = <<"trim_spaces">> /\ cTrace = << <<97>> >>

AlreadyTrimmed(s) == s = <<>> \/ (~IsSpace(s[1]) /\ ~IsSpace(s[Len(s)]))

\* C9: upper_case applied to its own result changes nothing, the same for
\* lower_case; trim_spaces returns an input that has no leading or trailing
\* white space unchanged.
C9_Idempotent ==
    /\ \A i \in 2..Len(cTrace) :
           (cConv[i] = cConv[i - 1] /\ cConv[i] \in {"upper_case", "lower_case"})
               => cTrace[i] = cTrace[i - 1]
    /\ \A i \in 1..Len(cTrace) :
           (cConv[i] = "trim_spaces" /\ AlreadyTrimmed(StepIn(i)))
               => cTrace[i] = StepIn(i)

C9_Witness ==
    /\ cConv = <<"upper_case", "upper_case">> /\ cData = <<97, 195, 169>>
    /\ cTrace = << <<65, 195, 137>>, <<65, 195, 137>> >>

IsLetters(s) == \A k \in 1..Len(s) : s[k] \in (65..90) \cup (97..122)

\* C10: upper_case then lower_case on ASCII letters gives the lower-case
\* form of the input, which is what lower_case alone gives.
C10_RoundTrip ==
    (Len(cTrace) >= 2 /\ cConv[1] = "upper_case" /\ cConv[2] = "lower_case"
        /\ IsLetters(cData))
        => /\ cTrace[2] = Convers(cData, "lower_case")
           /\ Len(cTrace[2]) = Len(cData)
           /\ \A k \in 1..Len(cData) :
                  cTrace[2][k] = IF cData[k] \in 65..90 THEN cData[k] + 32 ELSE cData[k]

C10_Witness ==
    /\ cConv = <<"upper_case", "lower_case">> /\ cData = <<65, 97, 65>>
    /\ Len(cTrace) = 2 /\ cTrace[2] = <<97, 97, 97>>

(***************************************************************************)
(* Properties of a run (Spec): errors, phases, the accumulation buffer.    *)
(***************************************************************************)
IsPrefix(a, b) == Len(a) <= Len(b) /\ a = SubSeq(b, 1, Len(a))

\* A step of the loop that is a call of src.Read.
IsRead ==
    /\ pc = "loop"
    /\ srcPos' # srcPos \/ lastErr' # lastErr \/ emptyReads' # emptyReads

\* C11: a failed write of the read-process-write phase ends the run, with
\* an error that names the write ("write processed data error") and does
\* not name a read.
C11_WriteFailureNamedAsWrite ==
    HasName(err, "write processed data error") =>
        /\ pc = "exit" /\ phase = "read"
        /\ ~ENABLED Next
        /\ ~HasName(err, "read data error")

\* C12: a read error other than io.EOF ends the run with the context "read
\* data error": no further read, no finalize phase, no retry.
C12_ReadErrorFatal ==
    lastErr = "error" =>
        /\ pc = "exit" /\ phase = "read"
        /\ err # <<>> /\ HasName(err, "read data error")
        /\ ~ENABLED Next

C12_Witness ==
    /\ lastErr = "error" /\ pc = "exit" /\ sink = <<97>> /\ srcPos = 2
    /\ err = <<"can't process file", "read data error", "read failed">>

\* What the run did with the bytes its reads returned: all of them counted,
\* and all of them accumulated or handed to a write.
AllRouted ==
    /\ totalRead = Len(BytesRead)
    /\ IF Buffering THEN trimBuffer = BytesRead ELSE handed = Len(BytesRead)

\* C13 as stated: after a read that returned io.EOF the loop has ended,
\* every byte the source delivered is routed and counted, and the run that
\* went through its finalize phase returned success.
C13_EofMeansSuccess ==
    (lastErr = "EOF" /\ ~HasName(err, "write processed data error")) =>
        /\ pc \in {"finalize", "exit"}
        /\ AllRouted
        /\ pc = "exit" => err = <<>>

\* C13 amended: after a read that returned io.EOF the loop has ended and
\* no read error is reported; unless the write of that block failed, every
\* byte the source delivered is routed and counted and the finalize phase
\* follows; the run returns success unless the finalize flush fails.
C13_EofEndsLoop ==
    lastErr = "EOF" =>
        /\ pc \in {"finalize", "exit"}
        /\ ~HasName(err, "read failed")
        /\ pc = "finalize" => err = <<>>
        /\ ~HasName(err, "write processed data error") =>
             /\ AllRouted
             /\ srcPos = Len(src)
             /\ pc = "exit" => phase = "finalize"
             /\ (pc = "exit" /\ err # <<>>) =>
                    (Buffering /\ err[Len(err)] = "write final processed data error")

C13_Witness ==
    /\ Success /\ lastErr = "EOF" /\ opts.Limit = 2 /\ opts.BlockSize = 0
    /\ totalRead = 2 /\ nWrites = 1 /\ handed = 2

\* C14: the finalize phase of a run with blockSize = 1, trim_spaces and a
\* non-empty accumulation buffer writes applyConversions(trimBuffer) once,
\* or fails with "write final processed data error"; in every other run it
\* writes nothing and the buffer has been empty all along.
C14_Finalize ==
    /\ [][pc = "finalize" =>
            IF Buffering /\ trimBuffer # <<>>
            THEN \/ /\ sink' = sink \o applyConversions(trimBuffer, opts.Conv)
                    /\ nWrites = 0 /\ nWrites' = 1
                    /\ err' = <<>> /\ pc' = "exit"
                 \/ /\ nWrites' = nWrites /\ pc' = "exit"
                    /\ err' # <<>>
                    /\ err'[Len(err')] = "write final processed data error"
            ELSE /\ sink' = sink /\ nWrites' = nWrites
                 /\ err' = <<>> /\ pc' = "exit"
                 /\ trimBuffer = <<>>]_vars
    /\ [][IsPrefix(trimBuffer, trimBuffer')]_vars

C14_Witness ==
    /\ pc = "exit" /\ phase = "finalize" /\ err = <<>>
    /\ opts.Conv = <<"trim_spaces", "upper_case">> /\ opts.BlockSize = 1
    /\ trimBuffer = <<97, 32, 97>> /\ sink = <<65, 32, 65>> /\ nWrites = 1

\* C15: with limit > 0, totalRead never exceeds limit, so limit - totalRead
\* does not wrap and no read asks for more than remains; totalRead never
\* decreases and a read adds to it exactly the bytes it returned.
C15_TotalReadBounded ==
    /\ []((opts.Limit > 0 /\ phase \in {"read", "finalize"})
            => (totalRead <= opts.Limit /\ srcPos - skipped <= opts.Limit))
    /\ [][/\ totalRead' >= totalRead
          /\ totalRead' # totalRead => (pc = "loop" /\ pc' # "processData")
          /\ (IsRead /\ ~HasName(err', "write processed data error"))
                => totalRead' = totalRead + (srcPos' - srcPos)
          /\ (IsRead /\ opts.Limit > 0)
                => (lastReq' <= opts.Limit - totalRead
                    /\ srcPos' - srcPos <= lastReq')]_vars

C15_Witness ==
    /\ pc = "loop" /\ opts.Limit = 2 /\ opts.BlockSize = 0
    /\ lastReq = 2 /\ totalRead = 1

\* C16: the phases come in the order skip, read-process-write, finalize;
\* nothing is written and no processing read is made before the skip phase
\* is over, a failed skip ends the run, nothing is read once the finalize
\* phase has started, and nothing touches the sink after the finalize phase.
C16_PhaseOrder ==
    /\ [][\/ phase' = phase
          \/ <<phase, phase'>> \in {<<"setup", "skip">>, <<"skip", "read">>,
                                    <<"read", "finalize">>}]_vars
    /\ [](phase \in {"setup", "skip"}
            => /\ sink = <<>> /\ nWrites = 0
               /\ lastErr = "none" /\ lastReq = 0 /\ srcPos = skipped
               /\ err # <<>> => pc = "exit")
    /\ [][(pc = "finalize" \/ phase = "finalize")
            => (srcPos' = srcPos /\ lastReq' = lastReq /\ lastErr' = lastErr)]_vars
    /\ [][phase = "finalize" => (sink' = sink /\ nWrites' = nWrites)]_vars

C16_Witness ==
    /\ Success /\ Buffering /\ opts.Offset = 1 /\ skipped = 1
    /\ srcPos = 3 /\ nWrites = 1 /\ lastErr = "EOF"

\* C17: the options never change, so the routing decision is the same for
\* every block and for the finalize phase: a run with blockSize = 1 and
\* trim_spaces writes nothing before its finalize phase and at most once, any
\* other run never accumulates.
C17_OptionsFixed ==
    /\ [][opts' = opts]_vars
    /\ [][(pc = "loop" \/ pc = "finalize")
            => (hasTrimSpaces' = hasTrimSpaces /\ bufLen' = bufLen)]_vars
    /\ [](phase \in {"read", "finalize"} =>
            /\ hasTrimSpaces = HasName(opts.Conv, "trim_spaces")
            /\ IF Buffering
               THEN /\ nWrites <= 1
                    /\ (nWrites = 1 \/ sink # <<>>) => phase = "finalize"
               ELSE /\ trimBuffer = <<>>
                    /\ phase = "finalize" => pc = "exit")

C17_Witness ==
    /\ pc = "loop" /\ Buffering /\ trimBuffer = <<32, 97>>
    /\ nWrites = 0 /\ sink = <<>>

EmptyRead ==
    pc = "loop" /\ pc' = "loop" /\ srcPos' = srcPos /\ lastErr' = "nil"

\* Every run returns unless its source goes on for ever returning no byte
\* and no error.
C18_TerminatesUnlessEmptyReads ==
    <>(pc = "exit") \/ []<><<EmptyRead>>_vars

\* How far a control point is from the return of Process.
StepsLeft(p) ==
    CASE p = "ParseFlags"  -> 7
      [] p = "getReader"   -> 6
      [] p = "getWriter"   -> 5
      [] p = "skipBytes"   -> 4
      [] p = "processData" -> 3
      [] p = "loop"        -> 2
      [] p = "finalize"    -> 1
      [] OTHER             -> 0

C19_ShortInputPassthrough ==
    (Success /\ opts.Conv = <<"trim_spaces">>) =>
        /\ opts.BlockSize = 2 => sink = SelectedRange
        /\ (opts.BlockSize = 1 /\ Len(SelectedRange) <= 2) => sink = SelectedRange

\* C20: with blockSize = 1 and trim_spaces the sink gets at most one write,
\* in the finalize phase, of the conversion of all the bytes read; a run
\* aborted by a read error has written nothing.
C20_NeverPartiallyFlushed ==
    Buffering =>
        /\ nWrites >= 1 =>
             /\ nWrites = 1 /\ pc = "exit" /\ phase = "finalize"
             /\ trimBuffer = BytesRead
             /\ sink = applyConversions(BytesRead, opts.Conv)
        /\ sink # <<>> =>
             /\ phase = "finalize" /\ trimBuffer = BytesRead
             /\ IsPrefix(sink, applyConversions(BytesRead, opts.Conv))
        /\ lastErr = "error" => (sink = <<>> /\ nWrites = 0 /\ pc = "exit")

C20_Witness ==
    /\ Buffering /\ lastErr = "error" /\ pc = "exit"
    /\ trimBuffer = <<97, 97>> /\ sink = <<>> /\ nWrites = 0

=============================================================================
